---------------------------- MODULE Spec2Model ----------------------------
(***************************************************************************)
(* Model of the arXiv connector's segmentation and derivation pipeline     *)
(* (src/src/data_collection/arxiv/connector.py): segment_paper,            *)
(* extract_entities and extract_relations, with the Segment / Entity /     *)
(* Relation records of src/src/knowledge_extraction/entity_model.py.       *)
(*                                                                         *)
(* Text is a sequence of character runs ("tokens").  A token stands for a  *)
(* run of characters of the text:                                          *)
(*   "nl"     the newline character                                        *)
(*   "sp"     one space (a whitespace character other than newline)        *)
(*   "colon"  the character ':'                                            *)
(*   "w"      a short run of ordinary letters (5 characters)               *)
(*   "W"      a long run of ordinary characters (50 characters)            *)
(*   a section name ("abstract", "method", ...) the first keyword of that    *)
(*            section's heading pattern, in any letter case                *)
(* A line is a token sequence without "nl".                                *)
(***************************************************************************)
EXTENDS Integers, Sequences, FiniteSets, TLC

\* ------------------------------------------------------------------ bounds
MaxLines == 4
MaxHeadingLines == 2
MaxAuthors == 2
MaxCategories == 2
MaxEntities == 3
MaxRetries == 3
MaxDelay == 2
MaxBackoff == 2
MaxStream == 3
MaxResults == 2
MaxPapers == 3
MaxTime == 3
MaxRequests == 3

\* delay_seconds of the API client, in seconds
RequestDelay == 3

\* --------------------------------------------------------------- constants
\* len(segments) < 3 : the fallback threshold
MinSegments == 3
\* len(para.strip()) < 50 : the minimum paragraph length
MinParagraphLen == 50

None == "None"

\* ------------------------------------------------------------------- text
\* The section names of section_patterns, in the dict's insertion order.
SectionNames ==
    << "abstract", "introduction", "background", "method", "experiment",
       "result", "discussion", "conclusion", "reference" >>

SectionNameSet == { SectionNames[i] : i \in DOMAIN SectionNames }

\* The members of the SegmentType enum (their lower-case values).
SegmentTypeEnum ==
    { "paragraph", "heading", "table", "list", "figure", "code", "quote",
      "abstract", "introduction", "method", "result", "discussion",
      "conclusion", "reference" }

\* Characters matched by \s in the token alphabet.
Whitespace == { "sp", "nl" }

\* Characters matched by the heading patterns' trailing group (?:\s|:|\n)+ .
Separators == { "sp", "colon", "nl" }

\* Number of characters a token stands for.
Width(tok) ==
    CASE tok = "W" -> 50
      [] tok = "w" -> 5
      [] tok = "abstract" -> 8
      [] tok = "introduction" -> 12
      [] tok = "background" -> 10
      [] tok = "method" -> 6
      [] tok = "experiment" -> 10
      [] tok = "result" -> 6
      [] tok = "discussion" -> 10
      [] tok = "conclusion" -> 10
      [] tok = "reference" -> 9
      [] OTHER -> 1

\* len(s) in characters.
RECURSIVE StrLen(_)
StrLen(s) == IF s = << >> THEN 0 ELSE Width(Head(s)) + StrLen(Tail(s))

\* s.lstrip() / s.rstrip() / s.strip()
RECURSIVE LStrip(_)
LStrip(s) ==
    IF s = << >> THEN << >>
    ELSE IF Head(s) \in Whitespace THEN LStrip(Tail(s)) ELSE s

RECURSIVE RStrip(_)
RStrip(s) ==
    IF s = << >> THEN << >>
    ELSE IF s[Len(s)] \in Whitespace THEN RStrip(SubSeq(s, 1, Len(s) - 1)) ELSE s

Strip(s) == RStrip(LStrip(s))

\* text.split('\n') : always at least one line.
RECURSIVE SplitNL(_)
SplitNL(text) ==
    IF \E i \in DOMAIN text : text[i] = "nl"
    THEN LET p == CHOOSE i \in DOMAIN text :
                     /\ text[i] = "nl"
                     /\ \A j \in 1..(i - 1) : text[j] # "nl"
         IN  << SubSeq(text, 1, p - 1) >> \o SplitNL(SubSeq(text, p + 1, Len(text)))
    ELSE << text >>

\* '\n'.join(lines)
RECURSIVE JoinNL(_)
JoinNL(ls) ==
    IF ls = << >> THEN << >>
    ELSE IF Len(ls) = 1 THEN ls[1]
    ELSE ls[1] \o << "nl" >> \o JoinNL(Tail(ls))

\* The end of the match of \n\s*\n that starts at index p of text, or 0 when
\* the pattern does not match there: \s* is greedy, so the match ends at the
\* last newline of the whitespace run that follows p.
MatchEnd(text, p) ==
    IF text[p] # "nl" THEN 0
    ELSE LET ends == { q \in (p + 1)..Len(text) :
                          /\ text[q] = "nl"
                          /\ \A j \in (p + 1)..q : text[j] \in Whitespace }
         IN  IF ends = {} THEN 0
             ELSE CHOOSE q \in ends : \A r \in ends : r <= q

\* re.split(r'\n\s*\n', text)
RECURSIVE ReSplit(_)
ReSplit(text) ==
    LET starts == { p \in DOMAIN text : MatchEnd(text, p) # 0 }
    IN  IF starts = {} THEN << text >>
        ELSE LET p == CHOOSE x \in starts : \A y \in starts : x <= y
                 q == MatchEnd(text, p)
             IN  << SubSeq(text, 1, p - 1) >> \o ReSplit(SubSeq(text, q + 1, Len(text)))

\* The pattern with an end-of-line alternative in its trailing group: a keyword
\* alone on the line matches too.
PatternMatches_bareToo(name, line) ==
    /\ Len(line) >= 1
    /\ line[1] = name
    /\ (Len(line) = 1 \/ line[2] \in Separators)

\* re.match(self.section_patterns[name], line, re.IGNORECASE): the line starts
\* with a keyword of the section followed by at least one separator character.
PatternMatches(name, line) ==
    /\ Len(line) >= 2
    /\ line[1] = name
    /\ line[2] \in Separators

\* The same loop with the break outside the if: only the first pattern of the
\* table is ever tried.
SectionTypeOf_firstOnly(line) ==
    IF PatternMatches(SectionNames[1], line) THEN SectionNames[1] ELSE None

\* The loop over section_patterns.items() with break on the first match.
SectionTypeOf(line) ==
    LET hits == { i \in DOMAIN SectionNames : PatternMatches(SectionNames[i], line) }
    IN  IF hits = {} THEN None
        ELSE SectionNames[CHOOSE i \in hits : \A j \in hits : i <= j]

\* getattr(SegmentType, name.upper(), SegmentType.PARAGRAPH)
SegmentTypeFor(name) ==
    IF name \in SegmentTypeEnum THEN name ELSE "paragraph"

\* any(seg.content for seg in segments): a segment counts when it has content.
AnySegments_byContent(segs) == \E i \in DOMAIN segs : segs[i].content # << >>

\* any(segments): a Segment object is truthy (the model class defines neither
\* __bool__ nor __len__), so this is "segments is not empty".
AnySegments(segs) == \E i \in DOMAIN segs : TRUE

\* Segment(segment_id, document_id, content, segment_type, position, metadata)
NewSegment(id, content, type, pos, metaType) ==
    [ segment_id |-> id, content |-> content, segment_type |-> type,
      position |-> pos, meta_segment_type |-> metaType ]


\* The segment built from the paper's metadata abstract: content=paper["summary"],
\* segment_type=SegmentType.ABSTRACT, position=0.
SyntheticAbstract_atOne(id, summary) == NewSegment(id, summary, "abstract", 1, "abstract")

SyntheticAbstract(id, summary) == NewSegment(id, summary, "abstract", 0, "abstract")

\* ------------------------------------------------------------ fallback step
\* if len(segments) < 3:
FallbackNeeded_structuralOnly(segs) == Len(segs) - 1 < MinSegments

FallbackNeeded(segs) == Len(segs) < MinSegments

\* The negation of the skip test: if len(para.strip()) < 50: continue
KeepParagraph(para) == ~ (StrLen(Strip(para)) < MinParagraphLen)

\* position=position + i, with position = len(segments) taken before the loop
\* and i the index enumerate() gives the paragraph.
ParagraphPosition_noOffset(position, i) == i

ParagraphPosition(position, i) == position + i

\* The loop over enumerate(paragraphs), from index i on; id is the next fresh
\* identifier.
RECURSIVE AppendParagraphs(_, _, _, _, _)
AppendParagraphs(segs, paragraphs, i, position, id) ==
    IF i >= Len(paragraphs) THEN segs
    ELSE LET para == paragraphs[i + 1]
         IN  IF KeepParagraph(para)
             THEN AppendParagraphs(
                      Append(segs, NewSegment(id, Strip(para), "paragraph",
                                              ParagraphPosition(position, i),
                                              "paragraph")),
                      paragraphs, i + 1, position, id + 1)
             ELSE AppendParagraphs(segs, paragraphs, i + 1, position, id)

\* The whole fallback block of segment_paper.
FallbackSegments_replace(segs, text, id) ==
    IF FallbackNeeded(segs)
    THEN AppendParagraphs(<< >>, ReSplit(text), 0, Len(segs), id)
    ELSE segs

FallbackSegments(segs, text, id) ==
    IF FallbackNeeded(segs)
    THEN AppendParagraphs(segs, ReSplit(text), 0, Len(segs), id)
    ELSE segs

\* ------------------------------------------------------------- derivation
\* Entity(entity_id, name, entity_type, source_segments, confidence, metadata)
NewEntity(id, name, type, sources, metaKind) ==
    [ entity_id |-> id, name |-> name, entity_type |-> type,
      source_segments |-> sources, confidence |-> 1, meta_kind |-> metaKind ]

\* [segment.segment_id for segment in segments
\*      if segment.segment_type == SegmentType.ABSTRACT]
RECURSIVE AbstractSegmentIds(_)
AbstractSegmentIds(segs) ==
    IF segs = << >> THEN << >>
    ELSE (IF Head(segs).segment_type = "abstract"
          THEN << Head(segs).segment_id >> ELSE << >>)
         \o AbstractSegmentIds(Tail(segs))

\* s without the repeated occurrences of its elements.
RECURSIVE Dedup(_)
Dedup(s) ==
    IF s = << >> THEN << >>
    ELSE LET d == Dedup(SubSeq(s, 1, Len(s) - 1))
         IN  IF \E k \in DOMAIN d : d[k] = s[Len(s)] THEN d ELSE Append(d, s[Len(s)])

\* for author in paper["authors"]: one person entity each
AuthorEntities_dedup(authors, sources, id) ==
    [ k \in 1..Len(Dedup(authors)) |->
        NewEntity(id + k - 1, Dedup(authors)[k], "person", sources, "author") ]

AuthorEntities(authors, sources, id) ==
    [ k \in 1..Len(authors) |->
        NewEntity(id + k - 1, authors[k], "person", sources, "author") ]

\* for category in paper["categories"]: one concept entity each
CategoryEntities(categories, sources, id) ==
    [ k \in 1..Len(categories) |->
        NewEntity(id + k - 1, categories[k], "concept", sources, "category") ]

\* The entity list extract_entities builds.
EntitiesOf(p, segs, id) ==
    LET sources == AbstractSegmentIds(segs)
    IN  << NewEntity(id, p.title, "paper", sources, "paper") >>
          \o AuthorEntities(p.authors, sources, id + 1)
          \o CategoryEntities(p.categories, sources, id + 1 + Len(p.authors))

\* Relation(relation_id, source_entity_id, target_entity_id, relation_type, ...)
NewRelation_swapped(id, source, target, type, sources) ==
    [ relation_id |-> id, source_entity_id |-> target,
      target_entity_id |-> source, relation_type |-> type,
      source_segments |-> sources, confidence |-> 1 ]

NewRelation(id, source, target, type, sources) ==
    [ relation_id |-> id, source_entity_id |-> source,
      target_entity_id |-> target, relation_type |-> type,
      source_segments |-> sources, confidence |-> 1 ]

\* Relation.validate_different_entities
ValidRelation_always(r) == TRUE

ValidRelation(r) == r.source_entity_id # r.target_entity_id

\* [e for e in entities if e.entity_type == type]
RECURSIVE EntitiesOfType(_, _)
EntitiesOfType(ents, type) ==
    IF ents = << >> THEN << >>
    ELSE (IF Head(ents).entity_type = type THEN << Head(ents) >> ELSE << >>)
         \o EntitiesOfType(Tail(ents), type)

\* The relation list extract_relations builds, before validation.
RelationsOf_firstAsPaper(ents, id) ==
    LET papers == EntitiesOfType(ents, "paper")
        pe == IF papers = << >> THEN Head(ents) ELSE Head(papers)
        au == EntitiesOfType(ents, "person")
        ca == EntitiesOfType(ents, "concept")
    IN  IF ents = << >> THEN << >>
        ELSE [ k \in 1..Len(au) |->
                 NewRelation(id + k - 1, pe.entity_id, au[k].entity_id,
                             "authored_by", pe.source_segments) ]
             \o
             [ k \in 1..Len(ca) |->
                 NewRelation(id + Len(au) + k - 1, pe.entity_id,
                             ca[k].entity_id, "part_of", pe.source_segments) ]

RelationsOf(ents, id) ==
    LET papers == EntitiesOfType(ents, "paper")
    IN  IF papers = << >> THEN << >>
        ELSE LET pe == Head(papers)
                 au == EntitiesOfType(ents, "person")
                 ca == EntitiesOfType(ents, "concept")
             IN  [ k \in 1..Len(au) |->
                     NewRelation(id + k - 1, pe.entity_id, au[k].entity_id,
                                 "authored_by", pe.source_segments) ]
                 \o
                 [ k \in 1..Len(ca) |->
                     NewRelation(id + Len(au) + k - 1, pe.entity_id,
                                 ca[k].entity_id, "part_of", pe.source_segments) ]

\* ------------------------------------------------------------------ state
VARIABLES
    pc,                       \* position in the call chain
    text_content,             \* the text given to segment_paper
    paper,                    \* the record get_paper_by_id returns
    next_id,                  \* the next fresh uuid4() value
    lines,                    \* text_content.split('\n')
    line_idx,                 \* index of the next line of the loop
    segments,                 \* the segment list
    position,                 \* the position counter
    current_segment_type,     \* None or the open section's name
    current_segment_content,  \* the open section's accumulated content
    entities,                 \* the entity list
    relations,                \* the relation list
    error                     \* None or the error kind raised

pipelineVars ==
    << pc, text_content, paper, next_id, lines, line_idx, segments, position,
       current_segment_type, current_segment_content, entities, relations,
       error >>

\* One call of a function wrapped by retry_on_failure (arxiv_connector.py).
VARIABLES
    rpc,             \* "idle", "call", "sleep", "returned" or "raised"
    max_retries,     \* the decorator's parameters
    delay,
    backoff,
    retries,         \* the wrapper's retry counter
    current_delay,   \* the wrapper's current delay
    calls,           \* the outcome of every call of the wrapped function so far
    waits,           \* the argument of every asyncio.sleep so far
    raised           \* None or the exception the wrapper let through

retryVars ==
    << rpc, max_retries, delay, backoff, retries, current_delay, calls, waits, raised >>

\* One call of ArxivConnector.search_papers.
VARIABLES
    spc,             \* "idle", "query", "request", "returned" or "raised"
    date_from,       \* the date_from argument
    date_to,         \* the date_to argument
    max_results,     \* the max_results argument
    api_calls,       \* how often self.api_client.results was invoked
    stream,          \* the results the source delivers to the request
    results,         \* the list search_papers returns
    search_error     \* None or the exception search_papers raised

searchVars ==
    << spc, date_from, date_to, max_results, api_calls, stream, results, search_error >>

\* One call of ArxivConnector.get_paper_by_id.
VARIABLES
    lpc,             \* "idle", "request", "answered", "returned" or "raised"
    arxiv_id,        \* the arxiv_id argument
    clean_id,        \* the identifier sent to the source
    answer,          \* what the request to the source gave
    lookup_result,   \* None or the paper record returned
    lookup_error     \* None or the exception raised

lookupVars == << lpc, arxiv_id, clean_id, answer, lookup_result, lookup_error >>

earlierVars == << pipelineVars, retryVars, searchVars, lookupVars >>

\* One call of ArxivConnector.collect_papers.
VARIABLES
    bpc,             \* "idle", "search", "download", "extract", "segment",
                     \* "persist", "returned" or "raised"
    found,           \* the papers search_papers returned
    bidx,            \* index of the paper of the current loop iteration
    paper_result,    \* the current paper's result record
    batch_results,   \* the results list
    batch_error,     \* None or the exception collect_papers raised
    stage_log        \* the stage calls made so far: paper index, stage, outcome

batchVars ==
    << bpc, found, bidx, paper_result, batch_results, batch_error, stage_log >>

\* One call of a stage method (download_pdf ... extract_relations) with the
\* calls it makes to other stage methods.
VARIABLES
    stg_pc,          \* "idle", "running", "raising", "returned" or "raised"
    stack,           \* the active calls: method and position in its body
    raising,         \* the exception in flight
    exits            \* every exit of a method by an exception so far

stageVars == << stg_pc, stack, raising, exits >>

\* ConnectorFactory: the class-level registry and the last call made.
VARIABLES
    connectors,      \* ConnectorFactory._connectors
    factory_call     \* the last classmethod call with its outcome

factoryVars == << connectors, factory_call >>

\* ArxivApiClient and the callers issuing requests through one client.
VARIABLES
    now,                 \* the clock, in seconds
    last_request_time,   \* ArxivApiClient.last_request_time
    caller_pc,           \* per caller: "idle", "limit" or "request"
    request_log          \* the time and kind of every request issued so far

limiterVars == << now, last_request_time, caller_pc, request_log >>

\* Invocations of one function wrapped by retry_on_failure, side by side.
VARIABLES
    wpc,                 \* per invocation: "idle", "call", "sleep", "returned"
                         \* or "raised"
    w_retries,           \* per frame of wrapper: the local variable retries
    w_current_delay,     \* per frame of wrapper: the local variable current_delay
    w_calls,             \* per invocation: the outcomes of the calls of func
    w_waits              \* per invocation: the arguments of asyncio.sleep

wrapVars == << wpc, w_retries, w_current_delay, w_calls, w_waits >>

laterVars == << batchVars, stageVars, factoryVars, limiterVars, wrapVars >>

vars == << earlierVars, laterVars >>

\* The value of raised while the wrapper has let no exception through.
NothingRaised == [ error |-> [ class |-> None, status_code |-> 0 ], attempts |-> 0 ]

\* The retry wrapper, search_papers and get_paper_by_id are not running.
RetryIdle ==
    /\ rpc = "idle"
    /\ max_retries = 0
    /\ delay = 0
    /\ backoff = 0
    /\ retries = 0
    /\ current_delay = 0
    /\ calls = << >>
    /\ waits = << >>
    /\ raised = NothingRaised

SearchIdle ==
    /\ spc = "idle"
    /\ date_from = None
    /\ date_to = None
    /\ max_results = 0
    /\ api_calls = 0
    /\ stream = << >>
    /\ results = << >>
    /\ search_error = None

LookupIdle ==
    /\ lpc = "idle"
    /\ arxiv_id = None
    /\ clean_id = None
    /\ answer = None
    /\ lookup_result = None
    /\ lookup_error = None

\* segment_paper, extract_entities and extract_relations are not running.
PipelineIdle ==
    /\ pc = "idle"
    /\ text_content = << >>
    /\ paper = None
    /\ next_id = 1
    /\ lines = << >>
    /\ line_idx = 0
    /\ segments = << >>
    /\ position = 0
    /\ current_segment_type = None
    /\ current_segment_content = << >>
    /\ entities = << >>
    /\ relations = << >>
    /\ error = None

\* A source type string: its letters (written in lower case) and whether it is
\* spelled in lower or in upper case.
SourceType(letters, case) == [ letters |-> letters, case |-> case ]

\* str.lower()
Lower(t) == SourceType(t.letters, "lower")

SourceLetters == { "arxiv", "custom", "web" }

\* The keys the registry can hold: register_connector stores lower-cased keys.
SourceKeys == { SourceType(n, "lower") : n \in SourceLetters }

\* _connectors = {"arxiv": ArxivConnector}; a key that is absent maps to None.
InitialConnectors ==
    [ k \in SourceKeys |->
        IF k = SourceType("arxiv", "lower") THEN "ArxivConnector" ELSE None ]

\* What the last call on the factory was and how it ended: the connector it
\* returned (by its class), the error it raised and the message of that error,
\* and the keys of the dictionary it returned.
FactoryCall(op, source_type, connector_class, made, exc, msg, dict_keys) ==
    [ op |-> op, source_type |-> source_type,
      connector_class |-> connector_class, returned |-> made,
      raised |-> exc, message |-> msg, keys |-> dict_keys ]

NoSourceType == SourceType(None, "lower")

NoFactoryCall == FactoryCall(None, NoSourceType, None, None, None, None, {})

\* collect_papers, the stage methods, the factory and the client are not in use.
BatchIdle ==
    /\ bpc = "idle"
    /\ found = << >>
    /\ bidx = 0
    /\ paper_result = None
    /\ batch_results = << >>
    /\ batch_error = None
    /\ stage_log = << >>

StageIdle ==
    /\ stg_pc = "idle"
    /\ stack = << >>
    /\ raising = None
    /\ exits = << >>

FactoryIdle ==
    /\ connectors = InitialConnectors
    /\ factory_call = NoFactoryCall

Invocations == { 1, 2 }

WrapIdle ==
    /\ wpc = [ i \in Invocations |-> "idle" ]
    /\ w_retries = [ i \in Invocations |-> 0 ]
    /\ w_current_delay = [ i \in Invocations |-> 0 ]
    /\ w_calls = [ i \in Invocations |-> << >> ]
    /\ w_waits = [ i \in Invocations |-> << >> ]

LimiterIdle ==
    /\ now = 0
    /\ last_request_time = 0
    /\ caller_pc = << >>
    /\ request_log = << >>

EarlierIdle == PipelineIdle /\ RetryIdle /\ SearchIdle /\ LookupIdle

\* ----------------------------------------------------------------- inputs
SeqsUpTo(S, n) == UNION { [1..k -> S] : k \in 0..n }

\* Lines of the general input texts.
LineSet ==
    { << >>, << "sp" >>, << "w" >>, << "W" >>,
      << "abstract", "colon" >>,
      << "introduction", "sp", "w" >>,
      << "background", "colon", "W" >>,
      << "method" >> }

\* Heading lines of every section type, in two spellings, and body lines.
HeadingLineSet ==
    { << n, "colon" >> : n \in SectionNameSet }
      \cup { << n, "sp", "w" >> : n \in SectionNameSet }
      \cup { << "w" >>, << >> }

\* paper["summary"] values: empty, blank, short.
Summaries == { << >>, << "w" >> }

AuthorNames == { "alice", "bob" }
CategoryCodes == { "cs.AI", "quant-ph" }

Paper(summary, authors, categories) ==
    [ title |-> "title", summary |-> summary, authors |-> authors,
      categories |-> categories ]

InitWith(ls, p) ==
    /\ pc = "start"
    /\ text_content = JoinNL(ls)
    /\ paper = p
    /\ next_id = 1
    /\ lines = << >>
    /\ line_idx = 0
    /\ segments = << >>
    /\ position = 0
    /\ current_segment_type = None
    /\ current_segment_content = << >>
    /\ entities = << >>
    /\ relations = << >>
    /\ error = None
    /\ RetryIdle
    /\ SearchIdle
    /\ LookupIdle
    /\ BatchIdle
    /\ StageIdle
    /\ FactoryIdle
    /\ LimiterIdle
    /\ WrapIdle

\* Any text of 1..MaxLines lines; a paper with one author and one category.
Init ==
    \E ls \in SeqsUpTo(LineSet, MaxLines) \ { << >> }, s \in Summaries :
        InitWith(ls, Paper(s, << "alice" >>, << "cs.AI" >>))

\* ---------------------------------------------------------------- actions
\* segment_paper up to the loop: get_paper_by_id, document_id = uuid4(), the
\* abstract segment, the loop variables.
SegmentPaperBegin ==
    /\ pc = "start"
    /\ segments' = << SyntheticAbstract(next_id + 1, paper.summary) >>
    /\ next_id' = next_id + 2
    /\ position' = 1
    /\ current_segment_type' = None
    /\ current_segment_content' = << >>
    /\ lines' = SplitNL(text_content)
    /\ line_idx' = 1
    /\ pc' = "loop"
    /\ UNCHANGED << text_content, paper, entities, relations, error >>
    /\ UNCHANGED << retryVars, searchVars, lookupVars >>
    /\ UNCHANGED laterVars

\* The same test with the trimmed content negated.
SaveOpen_inverted ==
    current_segment_type # None /\ Strip(current_segment_content) = << >>

\* The open segment is saved when it exists and its content is not blank.
SaveOpen == current_segment_type # None /\ Strip(current_segment_content) # << >>

OpenSegment ==
    NewSegment(next_id, Strip(current_segment_content),
               SegmentTypeFor(current_segment_type), position, current_segment_type)

\* One iteration of: for line in lines
ProcessLine ==
    /\ pc = "loop"
    /\ line_idx <= Len(lines)
    /\ LET line == lines[line_idx]
           section_type == SectionTypeOf(line)
       IN  IF section_type # None
           THEN /\ IF SaveOpen
                   THEN /\ segments' = Append(segments, OpenSegment)
                        /\ position' = position + 1
                        /\ next_id' = next_id + 1
                   ELSE UNCHANGED << segments, position, next_id >>
                /\ current_segment_type' = section_type
                /\ current_segment_content' = line \o << "nl" >>
           ELSE /\ UNCHANGED << segments, position, next_id >>
                /\ IF current_segment_type # None
                   THEN /\ current_segment_content' =
                               current_segment_content \o line \o << "nl" >>
                        /\ UNCHANGED current_segment_type
                   ELSE IF Strip(line) # << >> /\ ~ AnySegments(segments)
                        THEN /\ current_segment_type' = "introduction"
                             /\ current_segment_content' =
                                    current_segment_content \o line \o << "nl" >>
                        ELSE UNCHANGED << current_segment_type, current_segment_content >>
    /\ line_idx' = line_idx + 1
    /\ UNCHANGED << pc, text_content, paper, lines, entities, relations, error >>
    /\ UNCHANGED << retryVars, searchVars, lookupVars >>
    /\ UNCHANGED laterVars

\* The loop ends and the open segment is never added.
EmitLastSegment_dropped ==
    /\ pc = "loop"
    /\ line_idx > Len(lines)
    /\ pc' = "fallback"
    /\ UNCHANGED << text_content, paper, next_id, lines, line_idx, segments,
                    position, current_segment_type, current_segment_content,
                    entities, relations, error >>
    /\ UNCHANGED << retryVars, searchVars, lookupVars >>
    /\ UNCHANGED laterVars

\* After the loop: the last open segment is added.
EmitLastSegment ==
    /\ pc = "loop"
    /\ line_idx > Len(lines)
    /\ IF SaveOpen
       THEN /\ segments' = Append(segments, OpenSegment)
            /\ next_id' = next_id + 1
       ELSE UNCHANGED << segments, next_id >>
    /\ pc' = "fallback"
    /\ UNCHANGED << text_content, paper, lines, line_idx, position,
                    current_segment_type, current_segment_content, entities,
                    relations, error >>
    /\ UNCHANGED << retryVars, searchVars, lookupVars >>
    /\ UNCHANGED laterVars

\* The fallback block and the return of segment_paper.
FallbackParagraphs ==
    /\ pc = "fallback"
    /\ segments' = FallbackSegments(segments, text_content, next_id)
    /\ next_id' = next_id + (Len(segments') - Len(segments))
    /\ position' = IF FallbackNeeded(segments) THEN Len(segments) ELSE position
    /\ pc' = "segmented"
    /\ UNCHANGED << text_content, paper, lines, line_idx, current_segment_type,
                    current_segment_content, entities, relations, error >>
    /\ UNCHANGED << retryVars, searchVars, lookupVars >>
    /\ UNCHANGED laterVars

\* extract_entities on the segments and the paper record.
ExtractEntities ==
    /\ pc = "segmented"
    /\ entities' = EntitiesOf(paper, segments, next_id)
    /\ next_id' = next_id + Len(entities')
    /\ pc' = "entities"
    /\ UNCHANGED << text_content, paper, lines, line_idx, segments, position,
                    current_segment_type, current_segment_content, relations, error >>
    /\ UNCHANGED << retryVars, searchVars, lookupVars >>
    /\ UNCHANGED laterVars

\* extract_relations on the entities; a Relation that fails validation raises,
\* which the method re-raises as RelationExtractionError.
ExtractRelations ==
    /\ pc = "entities"
    /\ LET rs == RelationsOf(entities, next_id)
       IN  IF \A k \in DOMAIN rs : ValidRelation(rs[k])
           THEN /\ relations' = rs
                /\ next_id' = next_id + Len(rs)
                /\ error' = None
           ELSE /\ relations' = << >>
                /\ UNCHANGED next_id
                /\ error' = "RelationExtractionError"
    /\ pc' = "done"
    /\ UNCHANGED << text_content, paper, lines, line_idx, segments, position,
                    current_segment_type, current_segment_content, entities >>
    /\ UNCHANGED << retryVars, searchVars, lookupVars >>
    /\ UNCHANGED laterVars

\* Texts of up to MaxHeadingLines lines with headings of every section type.
InitHeadings ==
    \E ls \in SeqsUpTo(HeadingLineSet, MaxHeadingLines) \ { << >> }, s \in Summaries :
        InitWith(ls, Paper(s, << "alice" >>, << "cs.AI" >>))

\* Scenario A: a paper with 2 authors and 2 categories whose text has the four
\* headings abstract, introduction, method, conclusion, each on a line of its
\* own (bare, or followed by a colon or a space), followed by a body line and
\* a blank line.
HeadingSpellings(n) == { << n >>, << n, "colon" >>, << n, "sp" >> }

ScenarioSection(h, b) == << h, b, << >> >>

ScenarioATexts ==
    { ScenarioSection(h1, b1) \o ScenarioSection(h2, b2)
        \o ScenarioSection(h3, b3) \o ScenarioSection(h4, b4) :
        << h1, h2, h3, h4 >> \in
            HeadingSpellings("abstract") \X HeadingSpellings("introduction")
              \X HeadingSpellings("method") \X HeadingSpellings("conclusion"),
        << b1, b2, b3, b4 >> \in
            { << "w" >>, << "W" >> } \X { << "w" >>, << "W" >> }
              \X { << "w" >>, << "W" >> } \X { << "w" >>, << "W" >> } }

InitScenarioA ==
    \E ls \in ScenarioATexts :
        InitWith(ls, Paper(<< "w" >>, << "alice", "bob" >>, << "cs.AI", "quant-ph" >>))

\* Papers with up to MaxAuthors authors and MaxCategories categories (names
\* may repeat), each with a one-line text.
InitDerive ==
    \E l \in LineSet, s \in Summaries,
       au \in SeqsUpTo(AuthorNames, MaxAuthors),
       ca \in SeqsUpTo(CategoryCodes, MaxCategories) :
        InitWith(<< l >>, Paper(s, au, ca))

\* Entities a caller may pass to extract_relations(arxiv_id, entities): papers,
\* persons, a category concept, a concept that is no category, an entity of
\* another type, and a person entity that carries the first paper's identifier.
EntityInputs ==
    { NewEntity(1, "title", "paper", << 9 >>, "paper"),
      NewEntity(7, "other title", "paper", << >>, "paper"),
      NewEntity(2, "alice", "person", << 9 >>, "author"),
      NewEntity(3, "bob", "person", << 9 >>, "author"),
      NewEntity(1, "carol", "person", << 9 >>, "author"),
      NewEntity(4, "cs.AI", "concept", << 9 >>, "category"),
      NewEntity(5, "entropy", "concept", << >>, "term"),
      NewEntity(6, "institute", "organization", << >>, "affiliation") }

\* extract_relations called with an entity list of up to MaxEntities entities.
InitRelations ==
    \E es \in SeqsUpTo(EntityInputs, MaxEntities) :
        /\ pc = "entities"
        /\ text_content = << >>
        /\ paper = None
        /\ next_id = 10
        /\ lines = << >>
        /\ line_idx = 0
        /\ segments = << >>
        /\ position = 0
        /\ current_segment_type = None
        /\ current_segment_content = << >>
        /\ entities = es
        /\ relations = << >>
        /\ error = None
        /\ RetryIdle
        /\ SearchIdle
        /\ LookupIdle
        /\ BatchIdle
        /\ StageIdle
        /\ FactoryIdle
        /\ LimiterIdle
        /\ WrapIdle

Next ==
    \/ SegmentPaperBegin
    \/ ProcessLine
    \/ EmitLastSegment
    \/ FallbackParagraphs
    \/ ExtractEntities
    \/ ExtractRelations

Spec == Init /\ [][Next]_vars

SpecHeadings == InitHeadings /\ [][Next]_vars

SpecScenarioA == InitScenarioA /\ [][Next]_vars

SpecDerive == InitDerive /\ [][Next]_vars

SpecRelations == InitRelations /\ [][ExtractRelations]_vars

\* ------------------------------------------------------- retry_on_failure
\* An exception, by its class and (for ArxivAPIError) its status_code; the
\* status_code of the other classes is written 0.
Error(class, status) == [ class |-> class, status_code |-> status ]

ArxivAPIError(status) == Error("ArxivAPIError", status)

\* The wrapped function returned a value.
Success == Error("return", 0)

\* What one invocation of the wrapped function can do: return, or raise an API
\* error with a server-side (500, 503) or client-side (400) status, or an
\* exception of another class.
CallOutcomes ==
    { Success, ArxivAPIError(500), ArxivAPIError(503), ArxivAPIError(400),
      Error("ValueError", 0), Error("DataNotFoundError", 0) }

\* exceptions=(ArxivAPIError,): the classes the wrapper's except clause names.
RetryOn_anyConnectorError == { "ArxivAPIError", "DataNotFoundError" }

RetryOn == { "ArxivAPIError" }

\* except exceptions as e
Caught(e) == e.class \in RetryOn

\* if retries > max_retries: raise
Exhausted_early(r, m) == r >= m

Exhausted_late(r, m) == r > m + 1

Exhausted(r, m) == r > m

\* What reaches the caller when the wrapper lets an exception through: the
\* exception object of the failed invocation, and the attempt count attached
\* to it (0: the bare raise attaches nothing).
Reraised_first(cs) == [ error |-> cs[1], attempts |-> 0 ]

Reraised(cs) == [ error |-> cs[Len(cs)], attempts |-> 0 ]

\* wrapper: one pass through the try block and its except clause
RetryCall ==
    /\ rpc = "call"
    /\ \E o \in CallOutcomes :
          /\ calls' = Append(calls, o)
          /\ IF o = Success
             THEN /\ rpc' = "returned"
                  /\ UNCHANGED << retries, raised >>
             ELSE IF Caught(o)
             THEN /\ retries' = retries + 1
                  /\ IF Exhausted(retries + 1, max_retries)
                     THEN /\ rpc' = "raised"
                          /\ raised' = Reraised(Append(calls, o))
                     ELSE /\ rpc' = "sleep"
                          /\ UNCHANGED raised
             ELSE /\ rpc' = "raised"
                  /\ raised' = Reraised(Append(calls, o))
                  /\ UNCHANGED retries
    /\ UNCHANGED << max_retries, delay, backoff, current_delay, waits >>
    /\ UNCHANGED << pipelineVars, searchVars, lookupVars >>
    /\ UNCHANGED laterVars

\* The two statements in the other order: the delay is multiplied before the
\* sleep.
RetrySleep_multiplyFirst ==
    /\ rpc = "sleep"
    /\ waits' = Append(waits, current_delay * backoff)
    /\ current_delay' = current_delay * backoff
    /\ rpc' = "call"
    /\ UNCHANGED << max_retries, delay, backoff, retries, calls, raised >>
    /\ UNCHANGED << pipelineVars, searchVars, lookupVars >>
    /\ UNCHANGED laterVars

\* await asyncio.sleep(current_delay); current_delay *= backoff
RetrySleep ==
    /\ rpc = "sleep"
    /\ waits' = Append(waits, current_delay)
    /\ current_delay' = current_delay * backoff
    /\ rpc' = "call"
    /\ UNCHANGED << max_retries, delay, backoff, retries, calls, raised >>
    /\ UNCHANGED << pipelineVars, searchVars, lookupVars >>
    /\ UNCHANGED laterVars

\* A call of a wrapped function enters the wrapper.
InitRetry ==
    \E m \in 0..MaxRetries, d \in 0..MaxDelay, b \in 0..MaxBackoff :
        /\ PipelineIdle
        /\ SearchIdle
        /\ LookupIdle
        /\ rpc = "call"
        /\ max_retries = m
        /\ delay = d
        /\ backoff = b
        /\ retries = 0
        /\ current_delay = d
        /\ calls = << >>
        /\ waits = << >>
        /\ raised = NothingRaised
        /\ BatchIdle
        /\ StageIdle
        /\ FactoryIdle
        /\ LimiterIdle
        /\ WrapIdle

NextRetry ==
    \/ RetryCall
    \/ RetrySleep

SpecRetry == InitRetry /\ [][NextRetry]_vars

\* The event loop resumes the wrapper whenever the awaited call or sleep is
\* over, so a step that is possible is taken.
SpecRetryFair == SpecRetry /\ WF_vars(NextRetry)

\* ---------------------------------------------------------- search_papers
\* A date_from / date_to argument: None, the empty string, or a text of the
\* form <year> sep <month> sep <day>.
DateArg(kind, y, m, d, sep) ==
    [ kind |-> kind, year |-> y, month |-> m, day |-> d, sep |-> sep ]

NoDate == DateArg("None", 0, 0, 0, "")

EmptyDate == DateArg("empty", 0, 0, 0, "")

DateText(y, m, d, sep) == DateArg("text", y, m, d, sep)

\* if date_from / if date_to: None and the empty string are falsy.
Truthy(a) == a.kind = "text"

IsLeap(y) == (y % 4 = 0 /\ y % 100 # 0) \/ y % 400 = 0

DaysIn(y, m) ==
    IF m = 2 THEN (IF IsLeap(y) THEN 29 ELSE 28)
    ELSE IF m \in { 4, 6, 9, 11 } THEN 30 ELSE 31

\* datetime.strptime(text, "%Y-%m-%d") does not raise ValueError.
Parses(a) ==
    /\ a.sep = "-"
    /\ a.month \in 1..12
    /\ a.day \in 1..DaysIn(a.year, a.month)

\* The date-range block raises ValueError.
DatesRaise_never(df, dt) == FALSE

DatesRaise(df, dt) ==
    \/ Truthy(df) /\ ~ Parses(df)
    \/ Truthy(dt) /\ ~ Parses(dt)

\* except Exception as e: raise ArxivAPIError(500, error_msg)
SearchSurfaced(e) == ArxivAPIError(500)

\* What the source delivers to a request: results, or a fault raised while
\* the results are iterated.
DateTime(y, m, d, h) == [ year |-> y, month |-> m, day |-> d, hour |-> h ]

Result(id, title, published) ==
    [ kind |-> "result", id |-> id, title |-> title, published |-> published ]

Fault == [ kind |-> "fault", id |-> 0, title |-> << >>,
           published |-> DateTime(0, 0, 0, 0) ]

StreamItems ==
    { Result(1, << "w", "nl", "w" >>, DateTime(2023, 1, 15, 9)),
      Result(2, << "w" >>, DateTime(2023, 1, 14, 23)),
      Fault }

\* published.strftime("%Y-%m-%d")
FormatDate(t) == DateText(t.year, t.month, t.day, "-")

\* title.replace("\n", " ")
ReplaceNL(t) == [ k \in DOMAIN t |-> IF t[k] = "nl" THEN "sp" ELSE t[k] ]

\* The dictionary built from one result.
ToPaper(r) ==
    [ id |-> r.id, title |-> ReplaceNL(r.title),
      published |-> FormatDate(r.published) ]

\* if len(papers) >= max_results: break
LimitReached_after(k, n) == k > n

LimitReached(k, n) == k >= n

\* process_results: the loop over self.api_client.results(search)
RECURSIVE ProcessResults(_, _, _)
ProcessResults(s, n, papers) ==
    IF s = << >> THEN [ papers |-> papers, raised |-> FALSE ]
    ELSE IF Head(s).kind = "fault" THEN [ papers |-> papers, raised |-> TRUE ]
    ELSE LET more == Append(papers, ToPaper(Head(s)))
         IN  IF LimitReached(Len(more), n)
             THEN [ papers |-> more, raised |-> FALSE ]
             ELSE ProcessResults(Tail(s), n, more)

\* search_papers: the query construction with its date-range block
SearchBuildQuery ==
    /\ spc = "query"
    /\ IF DatesRaise(date_from, date_to)
       THEN /\ spc' = "raised"
            /\ search_error' = SearchSurfaced(Error("ValueError", 0))
       ELSE /\ spc' = "request"
            /\ UNCHANGED search_error
    /\ UNCHANGED << date_from, date_to, max_results, api_calls, stream, results >>
    /\ UNCHANGED << pipelineVars, retryVars, lookupVars >>
    /\ UNCHANGED laterVars

\* search_papers: the request run in the executor, and the return
SearchRequest ==
    /\ spc = "request"
    /\ api_calls' = api_calls + 1
    /\ LET out == ProcessResults(stream, max_results, << >>)
       IN  IF out.raised
           THEN /\ spc' = "raised"
                /\ search_error' = SearchSurfaced(Error("HTTPError", 0))
                /\ UNCHANGED results
           ELSE /\ spc' = "returned"
                /\ results' = out.papers
                /\ UNCHANGED search_error
    /\ UNCHANGED << date_from, date_to, max_results, stream >>
    /\ UNCHANGED << pipelineVars, retryVars, lookupVars >>
    /\ UNCHANGED laterVars

\* The date arguments of a call: absent, empty, a calendar date, a day or a
\* month that does not exist, another separator.
DateArgs ==
    { NoDate, EmptyDate,
      DateText(2024, 2, 29, "-"), DateText(2023, 2, 29, "-"),
      DateText(2023, 13, 1, "-"), DateText(2023, 1, 15, "/") }

InitSearch ==
    \E df \in DateArgs, dt \in DateArgs, n \in 0..MaxResults,
       st \in SeqsUpTo(StreamItems, MaxStream) :
        /\ PipelineIdle
        /\ RetryIdle
        /\ LookupIdle
        /\ spc = "query"
        /\ date_from = df
        /\ date_to = dt
        /\ max_results = n
        /\ api_calls = 0
        /\ stream = st
        /\ results = << >>
        /\ search_error = None
        /\ BatchIdle
        /\ StageIdle
        /\ FactoryIdle
        /\ LimiterIdle
        /\ WrapIdle

NextSearch ==
    \/ SearchBuildQuery
    \/ SearchRequest

SpecSearch == InitSearch /\ [][NextSearch]_vars

\* -------------------------------------------------------- get_paper_by_id
\* An arxiv_id is a text of the tokens "id" (an identifier without version
\* suffix), "v" and "digit".
ArxivIds ==
    { << "id" >>, << "id", "v", "digit" >>, << "id", "v", "digit", "digit" >>,
      << "id", "v" >>, << "v", "digit" >> }

RECURSIVE DropDigits(_)
DropDigits(s) ==
    IF s # << >> /\ s[Len(s)] = "digit"
    THEN DropDigits(SubSeq(s, 1, Len(s) - 1))
    ELSE s

\* re.sub(r'v\d+$', '', arxiv_id)
CleanId(s) ==
    LET t == DropDigits(s)
    IN  IF Len(t) < Len(s) /\ t # << >> /\ t[Len(t)] = "v"
        THEN SubSeq(t, 1, Len(t) - 1)
        ELSE s

\* list(self.api_client.results(search)) raises
HasFault(s) == \E k \in DOMAIN s : s[k].kind = "fault"

\* except DataNotFoundError: raise / except Exception: raise ArxivAPIError(500, ...)
LookupSurfaced_wrapAll(e) == ArxivAPIError(500)

LookupSurfaced(e) ==
    IF e.class = "DataNotFoundError" THEN e ELSE ArxivAPIError(500)

\* get_paper_by_id: id normalisation and the request run in the executor
LookupRequest ==
    /\ lpc = "request"
    /\ clean_id' = CleanId(arxiv_id)
    /\ \E ans \in SeqsUpTo(StreamItems, MaxStream) : answer' = ans
    /\ lpc' = "answered"
    /\ UNCHANGED << arxiv_id, lookup_result, lookup_error >>
    /\ UNCHANGED << pipelineVars, retryVars, searchVars >>
    /\ UNCHANGED laterVars

\* get_paper_by_id: process_result's outcome, the not-found test, the handlers
LookupReturn ==
    /\ lpc = "answered"
    /\ LET inner == IF HasFault(answer) THEN Error("HTTPError", 0)
                    ELSE IF answer = << >> THEN Error("DataNotFoundError", 0)
                    ELSE Success
       IN  IF inner = Success
           THEN /\ lpc' = "returned"
                /\ lookup_result' = ToPaper(answer[1])
                /\ UNCHANGED lookup_error
           ELSE /\ lpc' = "raised"
                /\ lookup_error' = LookupSurfaced(inner)
                /\ UNCHANGED lookup_result
    /\ UNCHANGED << arxiv_id, clean_id, answer >>
    /\ UNCHANGED << pipelineVars, retryVars, searchVars >>
    /\ UNCHANGED laterVars

InitLookup ==
    \E id \in ArxivIds :
        /\ PipelineIdle
        /\ RetryIdle
        /\ SearchIdle
        /\ lpc = "request"
        /\ arxiv_id = id
        /\ clean_id = None
        /\ answer = None
        /\ lookup_result = None
        /\ lookup_error = None
        /\ BatchIdle
        /\ StageIdle
        /\ FactoryIdle
        /\ LimiterIdle
        /\ WrapIdle

NextLookup ==
    \/ LookupRequest
    \/ LookupReturn

SpecLookup == InitLookup /\ [][NextLookup]_vars


\* ---------------------------------------------------------- stage methods
\* The stage methods of ArxivConnector and the error class each documents.
Stages ==
    { "download_pdf", "extract_text_from_pdf", "segment_paper",
      "extract_entities", "extract_relations" }

OwnError(stage) ==
    CASE stage = "download_pdf" -> "PDFDownloadError"
      [] stage = "extract_text_from_pdf" -> "TextExtractionError"
      [] stage = "segment_paper" -> "SegmentationError"
      [] stage = "extract_entities" -> "EntityExtractionError"
      [] stage = "extract_relations" -> "RelationExtractionError"

\* A statement of a method body that can fail: the stage method it calls (or
\* "none"), the exception classes it can raise itself, whether it is inside
\* the method's try block, whether it runs only when the optional argument
\* is absent, and whether a condition on the file system can skip it.
Site(call, raises, in_try, when, skippable) ==
    [ call |-> call, raises |-> raises, in_try |-> in_try, when |-> when,
      skippable |-> skippable ]

\* get_paper_by_id raises ArxivAPIError or DataNotFoundError.
LookupSite == Site("none", { "ArxivAPIError", "DataNotFoundError" }, TRUE, "always", FALSE)

Body(stage) ==
    CASE stage = "download_pdf" ->
           << LookupSite,
              Site("none", { "AttributeError", "ClientError" }, TRUE, "always", FALSE),
              Site("none", { "PDFDownloadError" }, TRUE, "always", FALSE),
              Site("none", { "OSError" }, TRUE, "always", FALSE) >>
      [] stage = "extract_text_from_pdf" ->
           << Site("none", { "TextExtractionError" }, FALSE, "always", FALSE),
              Site("none", { "PDFSyntaxError" }, TRUE, "always", FALSE) >>
      [] stage = "segment_paper" ->
           << Site("download_pdf", { }, TRUE, "absent", TRUE),
              Site("extract_text_from_pdf", { }, TRUE, "absent", FALSE),
              LookupSite,
              Site("none", { "ValidationError", "KeyError" }, TRUE, "always", FALSE) >>
      [] stage = "extract_entities" ->
           << Site("segment_paper", { }, TRUE, "absent", FALSE),
              LookupSite,
              Site("none", { "ValidationError", "KeyError" }, TRUE, "always", FALSE) >>
      [] stage = "extract_relations" ->
           << Site("extract_entities", { }, TRUE, "absent", FALSE),
              Site("none", { "ValidationError" }, TRUE, "always", FALSE) >>

\* The classes the first except clause of the method names.
NamedClasses(stage) ==
    CASE stage = "download_pdf" -> { "ArxivAPIError", "DataNotFoundError" }
      [] stage = "extract_text_from_pdf" -> { }
      [] stage = "segment_paper" ->
           { "ArxivAPIError", "DataNotFoundError", "PDFDownloadError",
             "TextExtractionError" }
      [] stage = "extract_entities" ->
           { "ArxivAPIError", "DataNotFoundError", "SegmentationError" }
      [] stage = "extract_relations" ->
           { "ArxivAPIError", "DataNotFoundError", "EntityExtractionError" }

\* An exception in flight: its class and whether the statement it left is
\* inside the try block of the method it is in.
InFlight(class, in_try) == [ class |-> class, in_try |-> in_try ]

\* The class with which an exception leaves the method: the two except
\* clauses (the named classes, then Exception) both raise the method's own
\* class; an exception raised outside the try block leaves as it is.
StageRaises_namedOnly(stage, f) ==
    IF f.in_try /\ f.class \in NamedClasses(stage) THEN OwnError(stage) ELSE f.class

StageRaises(stage, f) ==
    IF ~ f.in_try THEN f.class
    ELSE IF f.class \in NamedClasses(stage) THEN OwnError(stage)
    ELSE OwnError(stage)

\* An active call: the method, whether its optional argument was given, and
\* the index of the statement of Body it executes next.
Frame(stage, given, step) == [ stage |-> stage, given |-> given, step |-> step ]

Top == stack[Len(stack)]

TopSite == Body(Top.stage)[Top.step]

Advance == [ stack EXCEPT ![Len(stack)].step = @ + 1 ]

Pop == SubSeq(stack, 1, Len(stack) - 1)

\* The statement does not run: its condition is false.
Skipped(fr, site) == site.when = "absent" /\ fr.given

\* The current statement completes without an exception, or is not run.
StagePass ==
    /\ stg_pc = "running"
    /\ Top.step <= Len(Body(Top.stage))
    /\ \/ TopSite.call = "none"
       \/ Skipped(Top, TopSite)
       \/ TopSite.skippable
    /\ stack' = Advance
    /\ UNCHANGED << stg_pc, raising, exits >>
    /\ UNCHANGED << earlierVars, batchVars, factoryVars, limiterVars >>
    /\ UNCHANGED wrapVars

\* The current statement calls another stage method, without the optional
\* argument.
StageCall ==
    /\ stg_pc = "running"
    /\ Top.step <= Len(Body(Top.stage))
    /\ TopSite.call # "none"
    /\ ~ Skipped(Top, TopSite)
    /\ stack' = Append(Advance, Frame(TopSite.call, FALSE, 1))
    /\ UNCHANGED << stg_pc, raising, exits >>
    /\ UNCHANGED << earlierVars, batchVars, factoryVars, limiterVars >>
    /\ UNCHANGED wrapVars

\* The current statement raises.
StageFail ==
    /\ stg_pc = "running"
    /\ Top.step <= Len(Body(Top.stage))
    /\ ~ Skipped(Top, TopSite)
    /\ \E c \in TopSite.raises : raising' = InFlight(c, TopSite.in_try)
    /\ stg_pc' = "raising"
    /\ UNCHANGED << stack, exits >>
    /\ UNCHANGED << earlierVars, batchVars, factoryVars, limiterVars >>
    /\ UNCHANGED wrapVars

\* The method returns to its caller.
StageReturn ==
    /\ stg_pc = "running"
    /\ Top.step > Len(Body(Top.stage))
    /\ stack' = Pop
    /\ stg_pc' = IF Len(stack) = 1 THEN "returned" ELSE "running"
    /\ UNCHANGED << raising, exits >>
    /\ UNCHANGED << earlierVars, batchVars, factoryVars, limiterVars >>
    /\ UNCHANGED wrapVars

\* The exception in flight passes the method's except clauses and leaves the
\* method; in the caller it comes out of the call statement.
StageUnwind ==
    /\ stg_pc = "raising"
    /\ LET e == StageRaises(Top.stage, raising)
           caller == Pop
       IN  /\ exits' = Append(exits, [ stage |-> Top.stage, class |-> e ])
           /\ stack' = caller
           /\ IF caller = << >>
              THEN /\ stg_pc' = "raised"
                   /\ raising' = InFlight(e, FALSE)
              ELSE /\ stg_pc' = "raising"
                   /\ raising' =
                         InFlight(e, Body(caller[Len(caller)].stage)
                                       [caller[Len(caller)].step - 1].in_try)
    /\ UNCHANGED << earlierVars, batchVars, factoryVars, limiterVars >>
    /\ UNCHANGED wrapVars

InitStages ==
    \E s \in Stages, g \in BOOLEAN :
        /\ EarlierIdle
        /\ BatchIdle
        /\ FactoryIdle
        /\ LimiterIdle
        /\ WrapIdle
        /\ stg_pc = "running"
        /\ stack = << Frame(s, g, 1) >>
        /\ raising = None
        /\ exits = << >>

NextStages ==
    \/ StagePass
    \/ StageCall
    \/ StageFail
    \/ StageReturn
    \/ StageUnwind

SpecStages == InitStages /\ [][NextStages]_vars

\* --------------------------------------------------------- collect_papers
\* The exceptions that can come out of a statement of a stage method body.
SiteFailures(site) ==
    IF site.call = "none"
    THEN { InFlight(c, site.in_try) : c \in site.raises }
    ELSE { InFlight(OwnError(site.call), site.in_try) }

\* What a call of a stage method gives its caller: "ok", or the class of the
\* exception that leaves it.
StageOutcomes(stage, given) ==
    { "ok" } \cup
    { StageRaises(stage, f) :
        f \in UNION { SiteFailures(Body(stage)[k]) :
                        k \in { j \in DOMAIN Body(stage) :
                                  ~ (Body(stage)[j].when = "absent" /\ given) } } }

\* Writing the metadata file: open(metadata_path, 'w') and json.dump.
PersistOutcomes == { "ok", "OSError" }

\* The except clauses around each step of the loop body, innermost first.
BatchHandlers(step) ==
    CASE step = "download" -> << "PDFDownloadError" >>
      [] step = "extract" -> << "TextExtractionError", "PDFDownloadError" >>
      [] step \in { "segment", "persist" } ->
           << "SegmentationError", "TextExtractionError", "PDFDownloadError" >>

\* The class of the except clause that catches the exception, "none" when it
\* passes all of them.
CaughtBy(step, class) ==
    IF \E k \in DOMAIN BatchHandlers(step) : BatchHandlers(step)[k] = class
    THEN class ELSE "none"

\* paper_result["status"] set by the except clause.
HandlerStatus_extractFailed(class) ==
    IF class = "SegmentationError" THEN "partial" ELSE "failed"

HandlerStatus_statusKept(class) ==
    IF class = "SegmentationError" THEN "processing"
    ELSE IF class = "TextExtractionError" THEN "partial" ELSE "failed"

HandlerStatus(class) ==
    IF class \in { "SegmentationError", "TextExtractionError" }
    THEN "partial" ELSE "failed"

\* The message prefix the except clause appends to paper_result["errors"].
HandlerNote(class) ==
    CASE class = "SegmentationError" -> "Segmentation error"
      [] class = "TextExtractionError" -> "Text extraction error"
      [] class = "PDFDownloadError" -> "PDF download error"

\* paper_result at the start of an iteration; a key not yet set is "unset".
NewResult(id) ==
    [ id |-> id, status |-> "processing", errors |-> << >>,
      pdf_path |-> "unset", text_extracted |-> "unset",
      segments_count |-> "unset", metadata_path |-> "unset" ]

\* The except clause without its append to paper_result["errors"].
Handled_noMessage(rec, class) ==
    [ rec EXCEPT !.status = HandlerStatus(class),
                 !.text_extracted =
                     IF class = "TextExtractionError" THEN "False" ELSE @ ]

\* The except clause for the class, applied to the result record.
Handled(rec, class) ==
    [ rec EXCEPT !.status = HandlerStatus(class),
                 !.errors = Append(@, HandlerNote(class)),
                 !.text_extracted =
                     IF class = "TextExtractionError" THEN "False" ELSE @ ]

\* The step that follows a step that succeeded.
AfterStep_skipExtract(step) ==
    CASE step = "download" -> "segment"
      [] step = "extract" -> "segment"
      [] step = "segment" -> "persist"

AfterStep(step) ==
    CASE step = "download" -> "extract"
      [] step = "extract" -> "segment"
      [] step = "segment" -> "persist"

LogEntry(step, out) == [ paper |-> bidx, stage |-> step, ok |-> (out = "ok") ]

\* results.insert(0, paper_result): the newest record comes first.
AppendResult_prepend(rec) ==
    /\ batch_results' = << rec >> \o batch_results
    /\ paper_result' = rec
    /\ bidx' = bidx + 1
    /\ bpc' = IF bidx + 1 > Len(found) THEN "returned" ELSE "download"
    /\ UNCHANGED batch_error

\* results.append(paper_result) and the next iteration, or the return.
AppendResult(rec) ==
    /\ batch_results' = Append(batch_results, rec)
    /\ paper_result' = rec
    /\ bidx' = bidx + 1
    /\ bpc' = IF bidx + 1 > Len(found) THEN "returned" ELSE "download"
    /\ UNCHANGED batch_error

\* A step of the loop body raised: the except clauses of the iteration, then
\* the outer ones, which log and re-raise.
StepRaised(rec, step, class) ==
    IF CaughtBy(step, class) = "none"
    THEN /\ bpc' = "raised"
         /\ batch_error' = Error(class, 0)
         /\ paper_result' = rec
         /\ UNCHANGED << batch_results, bidx >>
    ELSE AppendResult(Handled(rec, class))

StepSucceeded(rec, step) ==
    /\ bpc' = AfterStep(step)
    /\ paper_result' = rec
    /\ UNCHANGED << batch_results, bidx, batch_error >>

\* papers = await self.search_papers(...)
BatchSearch ==
    /\ bpc = "search"
    /\ \/ \E n \in 0..MaxPapers :
            /\ found' = [ k \in 1..n |-> k ]
            /\ bidx' = 1
            /\ bpc' = IF n = 0 THEN "returned" ELSE "download"
            /\ UNCHANGED batch_error
       \/ /\ bpc' = "raised"
          /\ batch_error' = SearchSurfaced(Error("HTTPError", 0))
          /\ UNCHANGED << found, bidx >>
    /\ UNCHANGED << paper_result, batch_results, stage_log >>
    /\ UNCHANGED << earlierVars, stageVars, factoryVars, limiterVars >>
    /\ UNCHANGED wrapVars

\* paper_result = {...}; pdf_path = await self.download_pdf(paper["id"])
BatchDownload ==
    /\ bpc = "download"
    /\ \E out \in StageOutcomes("download_pdf", FALSE) :
          /\ stage_log' = Append(stage_log, LogEntry("download", out))
          /\ IF out = "ok"
             THEN StepSucceeded([ NewResult(found[bidx]) EXCEPT !.pdf_path = "set" ],
                                "download")
             ELSE StepRaised(NewResult(found[bidx]), "download", out)
    /\ UNCHANGED found
    /\ UNCHANGED << earlierVars, stageVars, factoryVars, limiterVars >>
    /\ UNCHANGED wrapVars

\* text = await self.extract_text_from_pdf(pdf_path)
BatchExtract ==
    /\ bpc = "extract"
    /\ \E out \in StageOutcomes("extract_text_from_pdf", TRUE) :
          /\ stage_log' = Append(stage_log, LogEntry("extract", out))
          /\ IF out = "ok"
             THEN StepSucceeded([ paper_result EXCEPT !.text_extracted = "True" ],
                                "extract")
             ELSE StepRaised(paper_result, "extract", out)
    /\ UNCHANGED found
    /\ UNCHANGED << earlierVars, stageVars, factoryVars, limiterVars >>
    /\ UNCHANGED wrapVars

\* segments = await self.segment_paper(paper["id"], text)
BatchSegment ==
    /\ bpc = "segment"
    /\ \E out \in StageOutcomes("segment_paper", TRUE) :
          /\ stage_log' = Append(stage_log, LogEntry("segment", out))
          /\ IF out = "ok"
             THEN StepSucceeded([ paper_result EXCEPT !.segments_count = "set" ],
                                "segment")
             ELSE StepRaised(paper_result, "segment", out)
    /\ UNCHANGED found
    /\ UNCHANGED << earlierVars, stageVars, factoryVars, limiterVars >>
    /\ UNCHANGED wrapVars

\* The metadata dictionary is written to <id>_metadata.json; then the status
\* becomes "success".
BatchPersist ==
    /\ bpc = "persist"
    /\ \E out \in PersistOutcomes :
          /\ stage_log' = Append(stage_log, LogEntry("persist", out))
          /\ IF out = "ok"
             THEN AppendResult([ paper_result EXCEPT !.metadata_path = "set",
                                                     !.status = "success" ])
             ELSE StepRaised(paper_result, "persist", out)
    /\ UNCHANGED found
    /\ UNCHANGED << earlierVars, stageVars, factoryVars, limiterVars >>
    /\ UNCHANGED wrapVars

InitBatch ==
    /\ EarlierIdle
    /\ StageIdle
    /\ FactoryIdle
    /\ LimiterIdle
    /\ WrapIdle
    /\ bpc = "search"
    /\ found = << >>
    /\ bidx = 0
    /\ paper_result = None
    /\ batch_results = << >>
    /\ batch_error = None
    /\ stage_log = << >>

NextBatch ==
    \/ BatchSearch
    \/ BatchDownload
    \/ BatchExtract
    \/ BatchSegment
    \/ BatchPersist

SpecBatch == InitBatch /\ [][NextBatch]_vars

\* ------------------------------------------------- requests and rate limit
\* The callers that use one connector and its clients at the same time.
Callers == { 1, 2 }

Request(kind) == [ time |-> now, kind |-> kind ]

\* The requests made through self.api_client (searches and lookups by id).
ApiRequests ==
    { k \in DOMAIN request_log : request_log[k].kind \in { "search", "lookup" } }

\* self.api_client = arxiv.Client(delay_seconds=3.0, ...): the client lets
\* delay_seconds pass between two requests it makes itself.
ApiClientReady ==
    \A k \in ApiRequests : now >= request_log[k].time + RequestDelay

\* Time passes.
Tick ==
    /\ now < MaxTime
    /\ now' = now + 1
    /\ UNCHANGED << last_request_time, caller_pc, request_log >>
    /\ UNCHANGED << earlierVars, batchVars, stageVars, factoryVars >>
    /\ UNCHANGED wrapVars

\* search_papers: self.api_client.results(search)
SearchRequestIssued(c) ==
    /\ caller_pc[c] = "idle"
    /\ Len(request_log) < MaxRequests
    /\ ApiClientReady
    /\ request_log' = Append(request_log, Request("search"))
    /\ UNCHANGED << now, last_request_time, caller_pc >>
    /\ UNCHANGED << earlierVars, batchVars, stageVars, factoryVars >>
    /\ UNCHANGED wrapVars

\* download_pdf: paper = await self.get_paper_by_id(arxiv_id)
DownloadLookup(c) ==
    /\ caller_pc[c] = "idle"
    /\ Len(request_log) < MaxRequests
    /\ ApiClientReady
    /\ request_log' = Append(request_log, Request("lookup"))
    /\ caller_pc' = [ caller_pc EXCEPT ![c] = "pdf_url" ]
    /\ UNCHANGED << now, last_request_time >>
    /\ UNCHANGED << earlierVars, batchVars, stageVars, factoryVars >>
    /\ UNCHANGED wrapVars

\* download_pdf: async with self.session.get(pdf_url) as response
DownloadGet(c) ==
    /\ caller_pc[c] = "pdf_url"
    /\ request_log' = Append(request_log, Request("pdf"))
    /\ caller_pc' = [ caller_pc EXCEPT ![c] = "idle" ]
    /\ UNCHANGED << now, last_request_time >>
    /\ UNCHANGED << earlierVars, batchVars, stageVars, factoryVars >>
    /\ UNCHANGED wrapVars

\* A caller awaits ArxivApiClient._respect_rate_limit().
LimitEnter(c) ==
    /\ caller_pc[c] = "idle"
    /\ caller_pc' = [ caller_pc EXCEPT ![c] = "limit" ]
    /\ UNCHANGED << now, last_request_time, request_log >>
    /\ UNCHANGED << earlierVars, batchVars, stageVars, factoryVars >>
    /\ UNCHANGED wrapVars

\* ArxivApiClient._respect_rate_limit: the body is "pass": it returns at once,
\* waits for nothing and leaves last_request_time as it is.
RespectRateLimit(c) ==
    /\ caller_pc[c] = "limit"
    /\ caller_pc' = [ caller_pc EXCEPT ![c] = "idle" ]
    /\ UNCHANGED << now, last_request_time, request_log >>
    /\ UNCHANGED << earlierVars, batchVars, stageVars, factoryVars >>
    /\ UNCHANGED wrapVars

InitLimiter ==
    /\ EarlierIdle
    /\ BatchIdle
    /\ StageIdle
    /\ FactoryIdle
    /\ WrapIdle
    /\ now = 0
    /\ last_request_time = 0
    /\ caller_pc = [ c \in Callers |-> "idle" ]
    /\ request_log = << >>

NextLimiter ==
    \/ Tick
    \/ \E c \in Callers : SearchRequestIssued(c)
    \/ \E c \in Callers : DownloadLookup(c)
    \/ \E c \in Callers : DownloadGet(c)
    \/ \E c \in Callers : LimitEnter(c)
    \/ \E c \in Callers : RespectRateLimit(c)

SpecLimiter == InitLimiter /\ [][NextLimiter]_vars

\* -------------------------------------------------------- ConnectorFactory
\* The source types a caller passes: str.lower() maps both cases to one key.
SourceTypes == { SourceType(n, c) : n \in SourceLetters, c \in { "lower", "upper" } }

\* Subclasses of DataSourceConnector, and a class that is not one.
ConnectorClasses == { "ArxivConnector", "CustomConnector" }

AnyClasses == ConnectorClasses \cup { "NotAConnector" }

\* issubclass(connector_class, DataSourceConnector)
IsSubclass(connector_class) == connector_class \in ConnectorClasses

\* cls._connectors.get(source_type.lower())
ConnectorClassFor(registry, source_type) == registry[Lower(source_type)]

\* cls._connectors.keys()
RegistryKeys(registry) == { k \in DOMAIN registry : registry[k] # None }

\* register_connector(source_type, connector_class)
RegisterConnector(source_type, connector_class) ==
    /\ IF ~IsSubclass(connector_class)
       THEN /\ factory_call' =
                   FactoryCall("register_connector", source_type, connector_class,
                               None, "TypeError",
                               "Connector class must be a subclass of DataSourceConnector",
                               {})
            /\ UNCHANGED connectors
       ELSE /\ connectors' =
                   [ connectors EXCEPT ![Lower(source_type)] = connector_class ]
            /\ factory_call' =
                   FactoryCall("register_connector", source_type, connector_class,
                               None, None, None, {})
    /\ UNCHANGED << earlierVars, batchVars, stageVars, limiterVars >>
    /\ UNCHANGED wrapVars

\* get_connector(source_type)
GetConnector(source_type) ==
    /\ LET connector_class == ConnectorClassFor(connectors, source_type)
       IN  IF connector_class = None
           THEN factory_call' =
                    FactoryCall("get_connector", source_type, None, None,
                                "ValueError", "Unknown source type", {})
           ELSE factory_call' =
                    FactoryCall("get_connector", source_type, connector_class,
                                connector_class, None, None, {})
    /\ UNCHANGED connectors
    /\ UNCHANGED << earlierVars, batchVars, stageVars, limiterVars >>
    /\ UNCHANGED wrapVars

\* get_available_connectors()
GetAvailableConnectors ==
    /\ factory_call' =
           FactoryCall("get_available_connectors", NoSourceType, None, None,
                       None, None, RegistryKeys(connectors))
    /\ UNCHANGED connectors
    /\ UNCHANGED << earlierVars, batchVars, stageVars, limiterVars >>
    /\ UNCHANGED wrapVars

InitFactory ==
    /\ EarlierIdle
    /\ BatchIdle
    /\ StageIdle
    /\ LimiterIdle
    /\ WrapIdle
    /\ FactoryIdle

NextFactory ==
    \/ \E t \in SourceTypes, c \in AnyClasses : RegisterConnector(t, c)
    \/ \E t \in SourceTypes : GetConnector(t)
    \/ GetAvailableConnectors

SpecFactory == InitFactory /\ [][NextFactory]_vars

\* ------------------------------------------- invocations of the wrapper
\* retries and current_delay are local variables of wrapper: every invocation
\* has a frame of its own.
Cell_shared(i) == 1

Cell(i) == i

\* What one call of the wrapped function can do in an invocation.
WrapOutcomes == { Success, ArxivAPIError(503), Error("DataNotFoundError", 0) }

\* wrapper(*args, **kwargs): retries = 0; current_delay = delay
WrapperEnter(i) ==
    /\ wpc[i] = "idle"
    /\ wpc' = [ wpc EXCEPT ![i] = "call" ]
    /\ w_retries' = [ w_retries EXCEPT ![Cell(i)] = 0 ]
    /\ w_current_delay' = [ w_current_delay EXCEPT ![Cell(i)] = delay ]
    /\ UNCHANGED << w_calls, w_waits >>
    /\ UNCHANGED << earlierVars, batchVars, stageVars, factoryVars, limiterVars >>

\* One pass through the try block and its except clause.
WrapperCall(i) ==
    /\ wpc[i] = "call"
    /\ \E o \in WrapOutcomes :
          /\ w_calls' = [ w_calls EXCEPT ![i] = Append(@, o) ]
          /\ IF o = Success
             THEN /\ wpc' = [ wpc EXCEPT ![i] = "returned" ]
                  /\ UNCHANGED w_retries
             ELSE IF Caught(o)
             THEN /\ w_retries' = [ w_retries EXCEPT ![Cell(i)] = @ + 1 ]
                  /\ wpc' = [ wpc EXCEPT ![i] =
                                IF Exhausted(w_retries[Cell(i)] + 1, max_retries)
                                THEN "raised" ELSE "sleep" ]
             ELSE /\ wpc' = [ wpc EXCEPT ![i] = "raised" ]
                  /\ UNCHANGED w_retries
    /\ UNCHANGED << w_current_delay, w_waits >>
    /\ UNCHANGED << earlierVars, batchVars, stageVars, factoryVars, limiterVars >>

\* await asyncio.sleep(current_delay); current_delay *= backoff
WrapperSleep(i) ==
    /\ wpc[i] = "sleep"
    /\ w_waits' = [ w_waits EXCEPT ![i] = Append(@, w_current_delay[Cell(i)]) ]
    /\ w_current_delay' = [ w_current_delay EXCEPT ![Cell(i)] = @ * backoff ]
    /\ wpc' = [ wpc EXCEPT ![i] = "call" ]
    /\ UNCHANGED << w_retries, w_calls >>
    /\ UNCHANGED << earlierVars, batchVars, stageVars, factoryVars, limiterVars >>

\* A function decorated with retry_on_failure(max_retries, delay, backoff),
\* not yet called.
InitWrap ==
    \E m \in 0..MaxRetries, d \in 0..MaxDelay, b \in 0..MaxBackoff :
        /\ PipelineIdle
        /\ SearchIdle
        /\ LookupIdle
        /\ BatchIdle
        /\ StageIdle
        /\ FactoryIdle
        /\ LimiterIdle
        /\ WrapIdle
        /\ rpc = "idle"
        /\ max_retries = m
        /\ delay = d
        /\ backoff = b
        /\ retries = 0
        /\ current_delay = 0
        /\ calls = << >>
        /\ waits = << >>
        /\ raised = NothingRaised

NextWrap ==
    \/ \E i \in Invocations : WrapperEnter(i)
    \/ \E i \in Invocations : WrapperCall(i)
    \/ \E i \in Invocations : WrapperSleep(i)

SpecWrap == InitWrap /\ [][NextWrap]_vars

\* ================================================================= claims
\* segment_paper has returned its list.
Returned == pc \in { "segmented", "entities", "done" }

\* The lines of the input text, and which of them the pattern table recognises.
TextLines == SplitNL(text_content)

IsBlank(line) == \A k \in DOMAIN line : line[k] \in Whitespace

IsHeadingLine(line) ==
    \E n \in SectionNameSet :
        /\ Len(line) >= 2
        /\ line[1] = n
        /\ line[2] \in Separators

HeadingLineCount == Cardinality({ i \in DOMAIN TextLines : IsHeadingLine(TextLines[i]) })

\* The segments appended by the fallback: the only ones whose metadata records
\* the segment type "paragraph".
IsFallbackSegment(seg) == seg.meta_segment_type = "paragraph"

RECURSIVE SelectFallback(_)
SelectFallback(segs) ==
    IF segs = << >> THEN << >>
    ELSE (IF IsFallbackSegment(Head(segs)) THEN << Head(segs) >> ELSE << >>)
         \o SelectFallback(Tail(segs))

\* The paragraphs of the text read line by line: the maximal runs of
\* non-blank lines, each joined and trimmed, in text order.
RECURSIVE RunsFrom(_, _)
RunsFrom(ls, run) ==
    IF ls = << >>
    THEN (IF run = << >> THEN << >> ELSE << Strip(JoinNL(run)) >>)
    ELSE IF IsBlank(Head(ls))
         THEN (IF run = << >> THEN << >> ELSE << Strip(JoinNL(run)) >>)
              \o RunsFrom(Tail(ls), << >>)
         ELSE RunsFrom(Tail(ls), Append(run, Head(ls)))

RECURSIVE LongOnes(_)
LongOnes(ps) ==
    IF ps = << >> THEN << >>
    ELSE (IF StrLen(Head(ps)) >= 50 THEN << Head(ps) >> ELSE << >>)
         \o LongOnes(Tail(ps))

\* The blank-line-separated paragraphs of at least 50 characters.
LongParagraphs == LongOnes(RunsFrom(TextLines, << >>))

\* C1: the returned segments carry the positions 0, 1, ..., k-1 in list order.
C1_PositionsContiguous ==
    Returned => \A i \in DOMAIN segments : segments[i].position = i - 1

\* C2: the first segment is always the synthetic abstract (type abstract,
\* position 0, content the metadata abstract), and every Abstract heading of the
\* body yields one more abstract-typed segment next to it.
C2_SyntheticAbstractFirst ==
    /\ pc # "start" =>
          /\ Len(segments) >= 1
          /\ segments[1].segment_type = "abstract"
          /\ segments[1].position = 0
          /\ segments[1].content = paper.summary
          /\ \A i \in 2..Len(segments) : segments[i].position > 0
    /\ Returned =>
          Cardinality({ i \in DOMAIN segments : segments[i].segment_type = "abstract" })
            = 1 + Cardinality({ i \in DOMAIN TextLines :
                                   /\ Len(TextLines[i]) >= 2
                                   /\ TextLines[i][1] = "abstract"
                                   /\ TextLines[i][2] \in Separators })

C2_Witness ==
    /\ pc = "segmented"
    /\ \E i \in DOMAIN TextLines : TextLines[i] = << "abstract", "colon" >>
    /\ Len(segments) >= 2
    /\ segments[1].segment_type = "abstract"
    /\ segments[2].segment_type = "abstract"
    /\ segments[2].content[1] = "abstract"

\* C3: the fallback runs exactly when fewer than 3 segments (the synthetic
\* abstract included) exist after structural segmentation; it then appends, in
\* text order, one paragraph-typed segment for every blank-line-separated
\* paragraph whose trimmed length is at least 50, and nothing else.
C3_FallbackRule ==
    [][ pc = "fallback" =>
          LET added == SubSeq(segments', Len(segments) + 1, Len(segments'))
          IN  IF Len(segments) < 3
              THEN /\ [ k \in DOMAIN added |-> added[k].content ] = LongParagraphs
                   /\ \A k \in DOMAIN added : added[k].segment_type = "paragraph"
              ELSE added = << >> ]_vars

C3_Witness ==
    /\ pc = "segmented"
    /\ \E i \in DOMAIN segments : IsFallbackSegment(segments[i])
    /\ \E k \in DOMAIN ReSplit(text_content) :
           /\ Strip(ReSplit(text_content)[k]) # << >>
           /\ StrLen(Strip(ReSplit(text_content)[k])) < 50

\* C4: the fallback step only adds: the list before it is a prefix of the list
\* after it.
C4_FallbackOnlyAdds ==
    [][ pc = "fallback" =>
          /\ Len(segments') >= Len(segments)
          /\ SubSeq(segments', 1, Len(segments)) = segments ]_vars

C4_Witness ==
    /\ pc = "segmented"
    /\ Len(segments) >= 3
    /\ ~ IsFallbackSegment(segments[2])
    /\ IsFallbackSegment(segments[3])

C6_ScenarioA ==
    pc = "done" =>
        /\ Len(segments) >= 5
        /\ Len(entities) = 5
        /\ Cardinality({ k \in DOMAIN entities : entities[k].entity_type = "paper" }) = 1
        /\ Cardinality({ k \in DOMAIN entities : entities[k].entity_type = "person" }) = 2
        /\ Cardinality({ k \in DOMAIN entities : entities[k].entity_type = "concept" }) = 2
        /\ Len(relations) = 4
        /\ Cardinality({ k \in DOMAIN relations :
                            relations[k].relation_type = "authored_by" }) = 2
        /\ Cardinality({ k \in DOMAIN relations :
                            relations[k].relation_type = "part_of" }) = 2

\* C7: every segment of the list has non-empty content.
C7_NonEmptyContent ==
    \A i \in DOMAIN segments : segments[i].content # << >>

\* C8: a section opened by a heading of type T (the type its metadata records)
\* is emitted with segment type T, for each of the nine types of the table.
C8_HeadingTypeKept ==
    Returned =>
        \A i \in DOMAIN segments :
            segments[i].meta_segment_type \in SectionNameSet
                => segments[i].segment_type = segments[i].meta_segment_type

\* The lines before the first recognised heading, from the first non-blank
\* line on.
RECURSIVE FrontMatter(_, _)
FrontMatter(ls, started) ==
    IF ls = << >> \/ IsHeadingLine(Head(ls)) THEN << >>
    ELSE IF started \/ ~ IsBlank(Head(ls))
         THEN << Head(ls) >> \o FrontMatter(Tail(ls), TRUE)
         ELSE FrontMatter(Tail(ls), FALSE)

\* C9: the lines before the first heading are kept: they are emitted as an
\* introduction-typed segment.
C9_FrontMatterKept ==
    (Returned /\ FrontMatter(TextLines, FALSE) # << >>) =>
        \E i \in DOMAIN segments :
            /\ segments[i].segment_type = "introduction"
            /\ segments[i].content = Strip(JoinNL(FrontMatter(TextLines, FALSE)))

\* C10: extract_entities yields exactly 1 paper entity, one person entity per
\* author and one concept entity per category code, all with confidence 1.0.
C10_EntityCounts ==
    pc \in { "entities", "done" } =>
        /\ Len(entities) = 1 + Len(paper.authors) + Len(paper.categories)
        /\ Cardinality({ k \in DOMAIN entities : entities[k].entity_type = "paper" }) = 1
        /\ Cardinality({ k \in DOMAIN entities : entities[k].entity_type = "person" })
              = Len(paper.authors)
        /\ Cardinality({ k \in DOMAIN entities : entities[k].entity_type = "concept" })
              = Len(paper.categories)
        /\ \A k \in DOMAIN entities : entities[k].confidence = 1

C10_Witness ==
    /\ pc = "entities"
    /\ Len(paper.authors) = 2
    /\ paper.authors[1] = paper.authors[2]
    /\ Len(paper.categories) = 2
    /\ Len(entities) = 5

\* The entities of the list given to extract_relations, by type.
InputCount(type) ==
    Cardinality({ k \in DOMAIN entities : entities[k].entity_type = type })

\* The identifier of the first paper-typed entity of the list.
FirstPaperId ==
    entities[CHOOSE k \in DOMAIN entities :
                /\ entities[k].entity_type = "paper"
                /\ \A j \in 1..(k - 1) : entities[j].entity_type # "paper"].entity_id

\* Relations of a type to the target x / entities of a type with identifier x.
RelationsTo(type, x) ==
    Cardinality({ k \in DOMAIN relations :
                     /\ relations[k].relation_type = type
                     /\ relations[k].target_entity_id = x })

EntitiesWithId(type, x) ==
    Cardinality({ k \in DOMAIN entities :
                     /\ entities[k].entity_type = type
                     /\ entities[k].entity_id = x })

EntityIds == { entities[k].entity_id : k \in DOMAIN entities }

\* No person or concept entity carries the paper entity's identifier.
NoIdClash ==
    \A k \in DOMAIN entities :
        entities[k].entity_type \in { "person", "concept" }
            => entities[k].entity_id # FirstPaperId

C12_NoSelfRelation ==
    pc = "done" =>
        /\ \A k \in DOMAIN relations :
              relations[k].source_entity_id # relations[k].target_entity_id
        /\ (InputCount("paper") >= 1 /\ ~ NoIdClash)
              => (error = "RelationExtractionError" /\ relations = << >>)

C12_Witness ==
    /\ pc = "done"
    /\ InputCount("paper") >= 1
    /\ ~ NoIdClash
    /\ error = "RelationExtractionError"

\* C13: without a paper-typed entity in the list (the empty list included)
\* extract_relations returns the empty list and raises nothing.
C13_NoPaperNoRelations ==
    (pc = "done" /\ InputCount("paper") = 0) =>
        (relations = << >> /\ error = None)

C13_Witness ==
    /\ pc = "done"
    /\ InputCount("paper") = 0
    /\ InputCount("person") >= 1
    /\ InputCount("concept") >= 1
    /\ relations = << >>

\* A transient API error: an ArxivAPIError with a 5xx status.
Transient(e) == e.class = "ArxivAPIError" /\ e.status_code >= 500

NonDecreasing(ws) == \A k \in 1..(Len(ws) - 1) : ws[k] <= ws[k + 1]

\* C14: retry law: when every invocation of the wrapped request raises a
\* transient error, the wrapper has invoked it exactly max_retries + 1 times
\* (and waited between consecutive attempts) when it raises, and for a backoff
\* multiplier of at least 1 the waits are non-decreasing.
C14_RetryLaw ==
    (\A k \in DOMAIN calls : Transient(calls[k])) =>
        /\ Len(calls) <= max_retries + 1
        /\ rpc # "returned"
        /\ rpc = "raised" =>
              /\ Len(calls) = max_retries + 1
              /\ Len(waits) = max_retries
        /\ backoff >= 1 => NonDecreasing(waits)

C14_Witness ==
    /\ rpc = "raised"
    /\ \A k \in DOMAIN calls : Transient(calls[k])
    /\ max_retries >= 2
    /\ backoff >= 2
    /\ Len(calls) = max_retries + 1
    /\ waits[1] < waits[2]

\* C15: only transient errors are retried: an invocation that raised an error
\* that is not transient is the last one, the error propagates and no wait
\* follows it.
C15_OnlyTransientRetried ==
    \A k \in DOMAIN calls :
        (calls[k] # Success /\ ~ Transient(calls[k])) =>
            /\ k = Len(calls)
            /\ rpc = "raised"
            /\ Len(waits) < k

\* C16 (as stated): after the retry budget is exhausted the raised error is the
\* last error, annotated with the number of attempts made.
C16_LastErrorAnnotated ==
    (rpc = "raised" /\ Exhausted(retries, max_retries)) =>
        /\ raised.error = calls[Len(calls)]
        /\ raised.attempts = Len(calls)

\* C16 (amended): after the retry budget is exhausted the raised error is the
\* error of the last attempt itself, re-raised unchanged, with no attempt
\* count attached.
C16_LastErrorUnchanged ==
    (rpc = "raised" /\ Exhausted(retries, max_retries)) =>
        /\ raised.error = calls[Len(calls)]
        /\ raised.attempts = 0
        /\ Len(calls) = max_retries + 1

C16_Witness ==
    /\ rpc = "raised"
    /\ Exhausted(retries, max_retries)
    /\ Len(calls) >= 2
    /\ calls[1] # calls[Len(calls)]
    /\ raised.error = calls[Len(calls)]

\* A date argument that is given and is no calendar date in YYYY-MM-DD form.
Unparsable(a) == a.kind = "text" /\ ~ Parses(a)

InvalidDateGiven ==
    spc # "idle" /\ (Unparsable(date_from) \/ Unparsable(date_to))

C18_InvalidDateNotRetryable ==
    (InvalidDateGiven /\ spc = "raised") =>
        (~ Caught(search_error) /\ ~ Transient(search_error))

\* C19: for a positive max_results search_papers returns at most max_results
\* entries, the first ones the source delivered, in the order of delivery.
C19_AtMostMaxResults ==
    (spc = "returned" /\ max_results > 0) =>
        /\ Len(results) <= max_results
        /\ Len(results) <= Len(stream)
        /\ Len(results) = max_results \/ Len(results) = Len(stream)
        /\ \A k \in DOMAIN results : results[k].id = stream[k].id

C19_Witness ==
    /\ spc = "returned"
    /\ max_results >= 2
    /\ Len(stream) > max_results
    /\ Len(results) = max_results
    /\ results[1].id # results[2].id

C21_NotFoundNeverRetried ==
    \A k \in DOMAIN calls :
        calls[k].class = "DataNotFoundError" =>
            /\ k = Len(calls)
            /\ Len(waits) = k - 1
            /\ rpc = "raised"
            /\ raised.error = calls[k]
            /\ retries = k - 1

C21_Witness ==
    /\ rpc = "raised"
    /\ max_retries >= 1
    /\ Len(calls) = 1
    /\ calls[1].class = "DataNotFoundError"
    /\ waits = << >>

PaperLog(k) ==
    LET OfPaper(e) == e.paper = k
    IN  SelectSeq(stage_log, OfPaper)

Ran(k, stage) == \E j \in DOMAIN PaperLog(k) : PaperLog(k)[j].stage = stage

Succeeded(k, stage) ==
    \E j \in DOMAIN PaperLog(k) :
        PaperLog(k)[j].stage = stage /\ PaperLog(k)[j].ok

FailedAt(k, stage) ==
    \E j \in DOMAIN PaperLog(k) :
        PaperLog(k)[j].stage = stage /\ ~ PaperLog(k)[j].ok

BatchOver == bpc \in { "returned", "raised" }

\* C22: a failure while one paper is processed aborts only that paper: once
\* the search has returned, collect_papers returns, with one record per paper
\* found, in order, and a failed stage is recorded in that paper's errors.
C22_FailureAbortsOnePaper ==
    BatchOver =>
        /\ bpc = "raised" => stage_log = << >>
        /\ bpc = "returned" =>
              /\ Len(batch_results) = Len(found)
              /\ \A k \in DOMAIN batch_results :
                    /\ batch_results[k].id = found[k]
                    /\ (\E st \in { "download", "extract", "segment", "persist" } :
                           FailedAt(k, st)) => batch_results[k].errors # << >>

\* C23 (as stated): partial means the text was extracted and a later stage
\* failed, failed means the failure came before the text was obtained; a
\* failed text extraction gives failed.
C23_PartialMeansTextExtracted ==
    \A k \in DOMAIN batch_results :
        /\ batch_results[k].status = "partial" => Succeeded(k, "extract")
        /\ batch_results[k].status = "failed" => ~ Succeeded(k, "extract")
        /\ FailedAt(k, "extract") => batch_results[k].status = "failed"

\* C23 (amended): failed means the PDF download failed; partial means the PDF
\* was downloaded and text extraction or segmentation failed, so a failed
\* text extraction gives partial, with text_extracted false.
C23_PartialMeansDownloaded ==
    \A k \in DOMAIN batch_results :
        /\ batch_results[k].status = "failed" <=> FailedAt(k, "download")
        /\ batch_results[k].status = "partial" <=>
              (Succeeded(k, "download")
                 /\ (FailedAt(k, "extract") \/ FailedAt(k, "segment")))
        /\ FailedAt(k, "extract") =>
              /\ batch_results[k].status = "partial"
              /\ batch_results[k].text_extracted = "False"

C23_Witness ==
    /\ bpc = "returned"
    /\ \E k \in DOMAIN batch_results :
          /\ FailedAt(k, "extract")
          /\ batch_results[k].status = "partial"
    /\ \E k \in DOMAIN batch_results :
          /\ FailedAt(k, "segment")
          /\ batch_results[k].status = "partial"

\* C24: every record of the list collect_papers builds and returns has a final
\* status, success, partial or failed; processing never appears in it.
C24_FinalStatus ==
    \A k \in DOMAIN batch_results :
        batch_results[k].status \in { "success", "partial", "failed" }

C24_Witness ==
    /\ bpc = "returned"
    /\ Len(batch_results) = 3
    /\ { batch_results[k].status : k \in DOMAIN batch_results }
          = { "success", "partial", "failed" }

C26_MinimumDelay ==
    \A k \in 1..(Len(request_log) - 1) :
        request_log[k + 1].time >= request_log[k].time + RequestDelay

\* C28: right after register_connector(t, C) has registered a connector class C
\* under any string t, get_connector(t) finds C and t is a key of what
\* get_available_connectors() returns.
C28_RegisteredThenAvailable ==
    ( /\ factory_call.op = "register_connector"
      /\ factory_call.raised = None )
        => /\ ConnectorClassFor(connectors, factory_call.source_type)
                  = factory_call.connector_class
           /\ factory_call.source_type \in RegistryKeys(connectors)

\* C29: get_connector with a source type that is not registered raises a
\* ValueError whose message contains "Unsupported source type", creates no
\* connector and leaves the registry unchanged.
C29_UnknownSourceType ==
    [][ ( /\ factory_call'.op = "get_connector"
          /\ Lower(factory_call'.source_type) \notin RegistryKeys(connectors) )
            => /\ factory_call'.raised = "ValueError"
               /\ factory_call'.message = "Unsupported source type"
               /\ factory_call'.returned = None
               /\ connectors' = connectors ]_vars

\* The places of the pattern table whose pattern matches the line, and the
\* line that the loop of segment_paper has just handled.
C30_Matching(line) ==
    { i \in 1..Len(SectionNames) :
        /\ Len(line) >= 2
        /\ line[1] = SectionNames[i]
        /\ line[2] \in { "sp", "colon", "nl" } }

C30_LineHandled == pc = "loop" /\ line_idx > 1

C30_LastLine == lines[line_idx - 1]

C31_AtLine == pc = "loop" /\ line_idx >= 1 /\ line_idx <= Len(lines)

C31_AtHeading == C31_AtLine /\ C30_Matching(lines[line_idx]) # {}

\* A segment is open and its content holds more than blanks.
C31_OpenNonBlank ==
    /\ current_segment_type # None
    /\ \E k \in DOMAIN current_segment_content :
           current_segment_content[k] \notin { "sp", "nl" }

\* C31: on a heading match, an open segment with non-blank content is emitted
\* with the value of the position counter and the counter advances by one, an
\* open segment with blank content (or none) emits nothing and leaves the
\* counter alone; then a segment of the matched type is opened whose content
\* starts with the heading line.
C31_HeadingEmitsAndOpens ==
    [][ C31_AtHeading =>
          /\ IF C31_OpenNonBlank
             THEN /\ Len(segments') = Len(segments) + 1
                  /\ SubSeq(segments', 1, Len(segments)) = segments
                  /\ segments'[Len(segments')].position = position
                  /\ segments'[Len(segments')].meta_segment_type = current_segment_type
                  /\ position' = position + 1
             ELSE /\ segments' = segments
                  /\ position' = position
          /\ \E i \in C30_Matching(lines[line_idx]) :
                current_segment_type' = SectionNames[i]
          /\ Len(current_segment_content') >= Len(lines[line_idx])
          /\ SubSeq(current_segment_content', 1, Len(lines[line_idx])) = lines[line_idx]
      ]_vars

\* A second heading has been handled: the section the first one opened was
\* emitted at position 1 and the counter stands at 2.
C31_Witness ==
    /\ C30_LineHandled
    /\ C30_Matching(C30_LastLine) # {}
    /\ Len(segments) = 2
    /\ segments[2].position = 1
    /\ position = 2

\* The segments that stem from a heading of the text: all but the synthetic
\* abstract and the fallback paragraphs.
C32_Sections ==
    { i \in 2..Len(segments) : segments[i].meta_segment_type # "paragraph" }

C32_HeadingLines == { i \in DOMAIN TextLines : IsHeadingLine(TextLines[i]) }

\* C32: at the end of the input the open segment is emitted once when its
\* content holds more than blanks and not at all otherwise, and the returned
\* list holds one segment for every heading line of the text, each starting
\* with its heading line.
C32_LastSegmentEmitted ==
    /\ [][ (pc = "loop" /\ line_idx > Len(lines)) =>
              IF C31_OpenNonBlank
              THEN /\ Len(segments') = Len(segments) + 1
                   /\ SubSeq(segments', 1, Len(segments)) = segments
                   /\ segments'[Len(segments')].meta_segment_type = current_segment_type
                   /\ \A i \in DOMAIN segments :
                          segments[i].segment_id # segments'[Len(segments')].segment_id
              ELSE segments' = segments ]_vars
    /\ [] ( Returned =>
              /\ Cardinality(C32_Sections) = Cardinality(C32_HeadingLines)
              /\ \A h \in C32_HeadingLines :
                    \E i \in C32_Sections :
                        /\ segments[i].meta_segment_type = TextLines[h][1]
                        /\ segments[i].content[1] = TextLines[h][1] )

\* A text whose last line belongs to an open section has been segmented: the
\* section is the last structural segment of the result.
C32_Witness ==
    /\ pc = "segmented"
    /\ C32_HeadingLines # {}
    /\ ~ IsHeadingLine(TextLines[Len(TextLines)])
    /\ \E i \in C32_Sections :
           /\ \A j \in C32_Sections : j <= i
           /\ Len(segments[i].content) >= 3

C34_PartOfOnlyForCategories ==
    pc = "done" =>
        \A k \in DOMAIN entities :
            ( /\ entities[k].entity_type = "concept"
              /\ entities[k].meta_kind # "category" )
                => \A j \in DOMAIN relations :
                       ~ ( /\ relations[j].relation_type = "part_of"
                           /\ relations[j].target_entity_id = entities[k].entity_id )

\* b to the power n
RECURSIVE C35_Power(_, _)
C35_Power(b, n) == IF n = 0 THEN 1 ELSE b * C35_Power(b, n - 1)

\* Every invocation so far raised an error the wrapper's except clause names.
C35_AllRetried == \A k \in DOMAIN calls : calls[k].class = "ArxivAPIError"

\* C35: exponential backoff: the wait before the k-th retry is
\* delay * backoff^(k-1); there are never more than max_retries waits, every
\* wait is followed by an attempt, and when every attempt fails the wrapper
\* raises after max_retries + 1 attempts and exactly max_retries waits, with no
\* wait after the last failed attempt.
C35_ExponentialBackoff ==
    /\ \A k \in DOMAIN waits : waits[k] = delay * C35_Power(backoff, k - 1)
    /\ Len(waits) <= max_retries
    /\ rpc \in { "returned", "raised" } => Len(waits) = Len(calls) - 1
    /\ (rpc = "raised" /\ C35_AllRetried) =>
          /\ Len(calls) = max_retries + 1
          /\ Len(waits) = max_retries

C35_Witness ==
    /\ rpc = "raised"
    /\ C35_AllRetried
    /\ delay >= 1
    /\ backoff = 2
    /\ Len(waits) = 3
    /\ waits[3] = 4 * delay

\* C36: when the first j invocations (j <= max_retries) raise retried errors
\* and the next one succeeds, the wrapper returns after exactly j + 1
\* invocations and j waits, and nothing follows the successful invocation; the
\* wrapper never makes more than max_retries + 1 invocations and always ends,
\* returning a result or raising an error.
C36_ReturnsFirstSuccess ==
    /\ [] ( /\ Len(calls) <= max_retries + 1
            /\ \A k \in DOMAIN calls :
                  calls[k] = Success =>
                      /\ k = Len(calls)
                      /\ rpc = "returned"
                      /\ Len(waits) = k - 1
                      /\ \A j \in 1..(k - 1) : calls[j].class = "ArxivAPIError"
            /\ rpc = "returned" => calls[Len(calls)] = Success )
    /\ <> ( rpc \in { "returned", "raised" } )

\* The last invocation the budget allows succeeded.
C36_Witness ==
    /\ rpc = "returned"
    /\ max_retries >= 2
    /\ Len(calls) = max_retries + 1
    /\ Len(waits) = max_retries

\* The line starts with a heading keyword that a blank or a colon follows.
C37_KeywordThenSeparator(line) ==
    /\ Len(line) >= 2
    /\ \E i \in 1..Len(SectionNames) : line[1] = SectionNames[i]
    /\ line[2] \in { "sp", "colon" }

\* The step opened a section with the line as its heading.
C37_Opened ==
    /\ current_segment_type' = lines[line_idx][1]
    /\ current_segment_content' = lines[line_idx] \o << "nl" >>

C38_StatusMatchesErrors ==
    \A k \in DOMAIN batch_results :
        LET rec == batch_results[k]
        IN  /\ rec.status = "success" <=> rec.errors = << >>
            /\ rec.status \in { "partial", "failed" } => Len(rec.errors) = 1
            /\ rec.status = "failed" =>
                  /\ rec.text_extracted = "unset"
                  /\ rec.segments_count = "unset"

\* A returned list with a failed record (one message, no text_extracted), a
\* partial record whose text extraction failed and a success record.
C38_Witness ==
    /\ bpc = "returned"
    /\ Len(batch_results) = 3
    /\ batch_results[1].status = "failed"
    /\ batch_results[1].errors = << "PDF download error" >>
    /\ batch_results[2].status = "partial"
    /\ batch_results[2].text_extracted = "False"
    /\ batch_results[3].status = "success"
    /\ batch_results[3].errors = << >>

\* The call of search_papers in collect_papers raised.
C39_SearchFailed == bpc = "raised" /\ bidx = 0

\* C39: when the search of collect_papers fails the error reaches the caller,
\* no stage has run for any paper and there is no result record; when it
\* succeeds the papers are handled one at a time in the order found (the
\* stages of a paper start only after the record of the paper before it is in
\* the list) and the i-th record belongs to the i-th paper found.
C39_SearchFirstThenInOrder ==
    /\ C39_SearchFailed =>
          /\ batch_error.class = "ArxivAPIError"
          /\ stage_log = << >>
          /\ batch_results = << >>
    /\ Len(batch_results) <= Len(found)
    /\ \A i \in DOMAIN batch_results : batch_results[i].id = found[i]
    /\ \A j \in DOMAIN stage_log :
          /\ stage_log[j].paper \in DOMAIN found
          /\ stage_log[j].paper <= Len(batch_results) + 1
          /\ j > 1 => stage_log[j - 1].paper <= stage_log[j].paper
    /\ bpc = "returned" => Len(batch_results) = Len(found)

\* Three papers were found and handled: the third record belongs to the third
\* paper, and the stages of the second paper ran after those of the first.
C39_Witness ==
    /\ bpc = "returned"
    /\ Len(found) = 3
    /\ batch_results[3].id = found[3]
    /\ batch_results[1].id = found[1]
    /\ Len(PaperLog(1)) = 4
    /\ Len(PaperLog(2)) = 1
    /\ Len(PaperLog(3)) = 2

\* C40: the retry budget belongs to the invocation: under every interleaving
\* of the invocations of a wrapped function each one makes at most
\* max_retries + 1 calls, exactly that many when all of its own calls raise a
\* retried error, and its waits start from the initial delay:
\* delay * backoff^(k-1) before its k-th retry, whatever the others did.
C40_BudgetPerInvocation ==
    \A i \in Invocations :
        /\ Len(w_calls[i]) <= max_retries + 1
        /\ \A k \in DOMAIN w_waits[i] :
              w_waits[i][k] = delay * C35_Power(backoff, k - 1)
        /\ wpc[i] = "sleep" => Len(w_calls[i]) <= max_retries
        /\ ( /\ wpc[i] = "raised"
             /\ \A k \in DOMAIN w_calls[i] : w_calls[i][k].class = "ArxivAPIError" )
               => /\ Len(w_calls[i]) = max_retries + 1
                  /\ Len(w_waits[i]) = max_retries

\* Two invocations in flight at once: the first has failed three times and
\* waited twice, the second has just failed for the first time.
C40_Witness ==
    /\ wpc[1] = "sleep"
    /\ wpc[2] = "sleep"
    /\ Len(w_calls[1]) = 3
    /\ Len(w_waits[1]) = 2
    /\ Len(w_calls[2]) = 1
    /\ delay >= 1
    /\ backoff = 2
    /\ w_current_delay[1] = 4 * delay
    /\ w_current_delay[2] = delay

=============================================================================
